---- MODULE Spec2Model ----
(***************************************************************************)
(* Model of the CAN bus message router, services/can_manager.py            *)
(* (class CanManager): the subscription registry (two mirrored dicts       *)
(* guarded by one threading.Lock), the callers of the registration API,    *)
(* the receiver thread that fans messages out to subscriber queues, the    *)
(* sender thread that passes the command queue on to the bus, and the      *)
(* thread that calls start() and stop().                                   *)
(*                                                                         *)
(* Granularity.  A caller is a thread of the surrounding application.  A   *)
(* call is split at the points where another thread can observe or change  *)
(* shared state: the entry (validation of the arguments, which reads no    *)
(* shared state, followed by the acquisition of the lock; a caller waiting *)
(* for the lock is one that has not taken this step yet), and one step per *)
(* statement group executed inside the lock.  The release is merged with   *)
(* the last mutation of the critical section: the statements between them  *)
(* (logger.info) touch no shared state.  The receiver thread never takes   *)
(* the lock, so each of its reads of the registry is a step of its own.    *)
(***************************************************************************)
EXTENDS Integers, Sequences, FiniteSets, TLC

\* 0x800: the first value that is no 11-bit identifier (can_manager.py:69)
CAN_ID_LIMIT == 2048

\* Bounds of the model
MaxHighIds == 2      \* identifiers CAN_ID_LIMIT - MaxHighIds .. CAN_ID_LIMIT are used as inputs
MaxMsgs == 1         \* messages the bus delivers in one run
MaxInbox == 2        \* capacity of an endpoint queue (nothing consumes from it here)
MaxCmds == 1         \* messages the owner of the command queue puts on it in one run
MaxStops == 2        \* calls of stop() in one run

Callers == {"c1", "c2"}      \* threads calling the registration API
Queues == {"Q1", "Q2"}       \* endpoints (multiprocessing.Queue objects, by identity)
None == "None"

\* Python values passed as can_id: an int, or something that is no int
IntVal(n) == [kind |-> "int", val |-> n]
StrVal == [kind |-> "str", val |-> 0]
NoVal == [kind |-> "none", val |-> 0]
IdNumbers == {-1} \cup ((CAN_ID_LIMIT - MaxHighIds) .. CAN_ID_LIMIT)
IdValues == {IntVal(n) : n \in IdNumbers} \cup {StrVal}
\* identifiers a frame on the bus can carry (11 bit), within the bounds
BusIds == {n \in IdNumbers : n >= 0 /\ n < CAN_ID_LIMIT}

VARIABLES
    id_subscriber_map,   \* dict: CAN id -> set of queues
    subscriber_id_map,   \* dict: queue -> set of CAN ids
    lock,                \* threading.Lock: its holder, or None
    pc,                  \* per caller: position in the call it is executing
    args,                \* per caller: the arguments (and loop variable) of that call
    result,              \* per caller: outcome of its last call ("ok" or the exception raised)
    serial,              \* history: the registry had every call run alone at its lock acquisition
    entry,               \* history: both maps as the call inside the lock found them
    rel,                 \* history: the pairs registered and not deregistered since
    is_running,          \* self.is_running
    rxpc,                \* receiver thread: position in _receive_can_messages
    rxmsg,               \* receiver thread: the message being dispatched
    iter,                \* receiver thread: the set iterator of the for loop
    rxcur,               \* receiver thread: the loop variable `queue`
    nrecv,               \* number of messages bus.recv has returned
    inbox,               \* per queue: the messages put on it, in order
    errlog,              \* logger.error calls of the receiver thread
    rxStable,            \* history: queues subscribed to rxmsg.id ever since it was received
    lpc,                 \* the thread that calls start() and stop(): its position
    lres,                \* outcome of its last call
    bus,                 \* self.bus: None, or the can.interface.Bus opened by start()
    iface,               \* the network interface can0: "unset", "up" or "down"
    nstop,               \* number of calls of stop()
    stopped,             \* history: a call of stop() has returned
    txpc,                \* sender thread: position in _send_can_messages
    txmsg,               \* sender thread: the message it took from the command queue
    command_queue,       \* self.command_queue: the messages (and None sentinels) on it
    nprod,               \* number of messages put on the command queue by its owner
    sent,                \* the messages bus.send has put on the bus, in order
    txerr,               \* logger.error calls of the sender thread for a failed send
    taken,               \* history: the messages command_queue.get has returned, in order
    passed,              \* history: the arguments of the calls of bus.send, in order
    sres                 \* send: "none", or how the last call of send ended

regVars == <<id_subscriber_map, subscriber_id_map, lock, pc, args, result, serial, entry, rel>>
rxVars == <<is_running, rxpc, rxmsg, rxcur, nrecv, inbox, errlog>>
txVars == <<txpc, txmsg, command_queue, nprod, sent, txerr, taken, passed, sres>>
lifeVars == <<lpc, lres, bus, iface, nstop, stopped>>
vars == <<id_subscriber_map, subscriber_id_map, lock, pc, args, result, serial, entry, rel,
          is_running, rxpc, rxmsg, iter, rxcur, nrecv, inbox, errlog, rxStable,
          lpc, lres, bus, iface, nstop, stopped,
          txpc, txmsg, command_queue, nprod, sent, txerr, taken, passed, sres>>

----------------------------------------------------------------------------
\* Python dict and set operations

EmptyDict == [k \in {} |-> {}]
DictSet(d, k, v) == [x \in (DOMAIN d) \cup {k} |-> IF x = k THEN v ELSE d[x]]
DictDel(d, k) == [x \in (DOMAIN d) \ {k} |-> d[x]]

\* if k not in d: d[k] = set()  ;  d[k].add(x)
AddMember(d, k, x) ==
    IF k \in DOMAIN d THEN [d EXCEPT ![k] = @ \cup {x}] ELSE DictSet(d, k, {x})

\* DropMember without the clean-up of the emptied entry
DropMember_NoCleanup(d, k, x) ==
    IF k \notin DOMAIN d THEN d ELSE [d EXCEPT ![k] = @ \ {x}]

\* DropMember deleting the entry with all its members
DropMember_WholeEntry(d, k, x) ==
    IF k \notin DOMAIN d THEN d ELSE DictDel(d, k)

\* if k in d: (if x in d[k]: d[k].remove(x)) ; (if not d[k]: del d[k])
DropMember(d, k, x) ==
    IF k \notin DOMAIN d THEN d
    ELSE IF d[k] \ {x} = {} THEN DictDel(d, k)
    ELSE [d EXCEPT ![k] = @ \ {x}]

----------------------------------------------------------------------------
\* _validate_can_id without the upper bound
ValidateCanId_NoUpperBound(v) ==
    IF v.kind # "int" THEN "TypeError"
    ELSE IF v.val < 0 THEN "ValueError_out_of_range"
    ELSE "ok"

\* _validate_can_id with `>` for `>=` in the test of the upper bound
ValidateCanId_InclusiveLimit(v) ==
    IF v.kind # "int" THEN "TypeError"
    ELSE IF v.val < 0 \/ v.val > CAN_ID_LIMIT THEN "ValueError_out_of_range"
    ELSE "ok"

\* _validate_can_id without the test of the lower bound
ValidateCanId_NoLowerBound(v) ==
    IF v.kind # "int" THEN "TypeError"
    ELSE IF v.val >= CAN_ID_LIMIT THEN "ValueError_out_of_range"
    ELSE "ok"

\* _validate_can_id: "ok", or the exception it raises
ValidateCanId(v) ==
    IF v.kind # "int" THEN "TypeError"
    ELSE IF v.val < 0 \/ v.val >= CAN_ID_LIMIT THEN "ValueError_out_of_range"
    ELSE "ok"

\* the checks of register_subscriber_range_id without the one on the order
ValidateRange_NoOrderCheck(hi, lo) ==
    IF ValidateCanId(hi) # "ok" THEN ValidateCanId(hi)
    ELSE IF ValidateCanId(lo) # "ok" THEN ValidateCanId(lo)
    ELSE "ok"

\* the checks register_subscriber_range_id makes before it takes the lock
ValidateRange(hi, lo) ==
    IF ValidateCanId(hi) # "ok" THEN ValidateCanId(hi)
    ELSE IF ValidateCanId(lo) # "ok" THEN ValidateCanId(lo)
    ELSE IF hi.val < lo.val THEN "ValueError_lower_greater"
    ELSE "ok"

\* the check of deregister_subscriber with `and` for `or`
DeregisterCheck_BothMissing(fwd, rev, v, q) ==
    IF (v.kind # "int" \/ v.val \notin DOMAIN fwd) /\ q \notin DOMAIN rev
    THEN "ValueError_not_registered"
    ELSE "ok"

\* the check deregister_subscriber makes as it enters the lock
DeregisterCheck(fwd, rev, v, q) ==
    IF v.kind # "int" \/ v.val \notin DOMAIN fwd \/ q \notin DOMAIN rev
    THEN "ValueError_not_registered"
    ELSE "ok"

----------------------------------------------------------------------------
\* The three registry operations as run by one thread alone, on <<fwd, rev>>

RECURSIVE AddRange(_, _, _, _)
AddRange(d, lo, hi, x) ==
    IF lo > hi THEN d ELSE AddRange(AddMember(d, lo, x), lo + 1, hi, x)

RECURSIVE AddIds(_, _, _, _)
AddIds(d, q, lo, hi) ==
    IF lo > hi THEN d ELSE AddIds(AddMember(d, q, lo), q, lo + 1, hi)

ApplySingle(reg, v, q) ==
    <<AddMember(reg[1], v.val, q), AddMember(reg[2], q, v.val)>>

ApplyRange(reg, hi, lo, q) ==
    <<AddRange(reg[1], lo.val, hi.val, q), AddIds(reg[2], q, lo.val, hi.val)>>

ApplyDeregister(reg, v, q) ==
    <<DropMember(reg[1], v.val, q), DropMember(reg[2], q, v.val)>>

----------------------------------------------------------------------------
\* The set iterator of the receiver's for loop (CPython setiter).  It keeps
\* the set object, the size the set had when the iterator was made, and a
\* table position.  `ahead` are the members stored beyond that position.  A
\* member added while the loop runs lands before or beyond the position.
\* Deleting the dict entry leaves the iterator with the (then empty) object.

NoIter == [key |-> -1, attached |-> FALSE, used |-> 0, ahead |-> {}]

IterSet == IF iter.attached THEN id_subscriber_map[iter.key] ELSE {}

\* the iterator after d[k].add(x)
IterAfterAdd(d, k, x) ==
    IF iter.attached /\ iter.key = k /\ k \in DOMAIN d /\ x \notin d[k]
    THEN {iter, [iter EXCEPT !.ahead = @ \cup {x}]}
    ELSE {iter}

\* the iterator after the removal of x from d[k] and the clean-up of d[k]
IterAfterDrop(d, k, x) ==
    IF iter.attached /\ iter.key = k /\ k \in DOMAIN d
    THEN [iter EXCEPT !.ahead = @ \ {x}, !.attached = (d[k] \ {x} # {})]
    ELSE iter

----------------------------------------------------------------------------
\* Callers of the registration API

\* no call is inside the lock
NoEntry == <<>>

NoArgs == [op |-> "none", id |-> NoVal, hi |-> NoVal, lo |-> NoVal, q |-> None, i |-> 0]

\* the call returns (r = "ok") or raises r
Return(c, r) ==
    /\ pc' = [pc EXCEPT ![c] = "idle"]
    /\ args' = [args EXCEPT ![c] = NoArgs]
    /\ result' = [result EXCEPT ![c] = r]

\* a lock that is never waited for
LockFree_Ignored == TRUE

LockFree == lock = None

\* RegisterSingle raising for a queue that is subscribed to the identifier
RegisterSingle_RejectDuplicate(c, v, q) ==
    /\ pc[c] = "idle"
    /\ IF ValidateCanId(v) # "ok"
       THEN /\ Return(c, ValidateCanId(v))
            /\ UNCHANGED <<lock, serial, entry, rel>>
       ELSE /\ LockFree
            /\ IF v.val \in DOMAIN id_subscriber_map /\ q \in id_subscriber_map[v.val]
               THEN /\ Return(c, "ValueError_already_registered")
                    /\ UNCHANGED <<lock, serial, entry, rel>>
               ELSE /\ lock' = c
                    /\ pc' = [pc EXCEPT ![c] = "single_fwd"]
                    /\ args' = [args EXCEPT ![c] = [NoArgs EXCEPT !.op = "single", !.id = v, !.q = q]]
                    /\ serial' = ApplySingle(serial, v, q)
                    /\ entry' = <<id_subscriber_map, subscriber_id_map>>
                    /\ rel' = rel \cup {<<v.val, q>>}
                    /\ UNCHANGED result
    /\ UNCHANGED <<id_subscriber_map, subscriber_id_map>>
    /\ UNCHANGED <<rxVars, txVars, lifeVars, iter, rxStable>>

\* register_subscriber_single_id(can_id, queue), lines 74-76: validation
\* (the exception leaves the call), then `with self.lock`
RegisterSingle(c, v, q) ==
    /\ pc[c] = "idle"
    /\ IF ValidateCanId(v) # "ok"
       THEN /\ Return(c, ValidateCanId(v))
            /\ UNCHANGED <<lock, serial, entry, rel>>
       ELSE /\ LockFree
            /\ lock' = c
            /\ pc' = [pc EXCEPT ![c] = "single_fwd"]
            /\ args' = [args EXCEPT ![c] = [NoArgs EXCEPT !.op = "single", !.id = v, !.q = q]]
            /\ serial' = ApplySingle(serial, v, q)
            /\ entry' = <<id_subscriber_map, subscriber_id_map>>
            /\ rel' = rel \cup {<<v.val, q>>}
            /\ UNCHANGED result
    /\ UNCHANGED <<id_subscriber_map, subscriber_id_map>>
    /\ UNCHANGED <<rxVars, txVars, lifeVars, iter, rxStable>>

\* lines 78-80
RegisterSingleFwd(c) ==
    /\ pc[c] = "single_fwd"
    /\ id_subscriber_map' = AddMember(id_subscriber_map, args[c].id.val, args[c].q)
    /\ iter' \in IterAfterAdd(id_subscriber_map, args[c].id.val, args[c].q)
    /\ pc' = [pc EXCEPT ![c] = "single_rev"]
    /\ UNCHANGED <<subscriber_id_map, lock, args, result, serial, entry, rel>>
    /\ UNCHANGED <<rxVars, txVars, lifeVars, rxStable>>

\* lines 83-87, and the release of the lock
RegisterSingleRev(c) ==
    /\ pc[c] = "single_rev"
    /\ subscriber_id_map' = AddMember(subscriber_id_map, args[c].q, args[c].id.val)
    /\ lock' = None
    /\ entry' = NoEntry
    /\ Return(c, "ok")
    /\ UNCHANGED <<id_subscriber_map, serial, rel>>
    /\ UNCHANGED <<rxVars, txVars, lifeVars, iter, rxStable>>

\* register_subscriber_range_id(can_id_high, can_id_low, queue), lines 91-97:
\* validation of both bounds and of their order, then `with self.lock`
RegisterRange(c, hi, lo, q) ==
    /\ pc[c] = "idle"
    /\ IF ValidateRange(hi, lo) # "ok"
       THEN /\ Return(c, ValidateRange(hi, lo))
            /\ UNCHANGED <<lock, serial, entry, rel>>
       ELSE /\ LockFree
            /\ lock' = c
            /\ pc' = [pc EXCEPT ![c] = "range_fwd"]
            /\ args' = [args EXCEPT ![c] = [NoArgs EXCEPT !.op = "range", !.hi = hi,
                                                          !.lo = lo, !.q = q, !.i = lo.val]]
            /\ serial' = ApplyRange(serial, hi, lo, q)
            /\ entry' = <<id_subscriber_map, subscriber_id_map>>
            /\ rel' = rel \cup {<<x, q>> : x \in lo.val .. hi.val}
            /\ UNCHANGED result
    /\ UNCHANGED <<id_subscriber_map, subscriber_id_map>>
    /\ UNCHANGED <<rxVars, txVars, lifeVars, iter, rxStable>>

\* the last value of range(can_id_low, can_id_high)
RangeLast_Exclusive(c) == args[c].hi.val - 1

\* the last value of range(can_id_low, can_id_high + 1)
RangeLast(c) == args[c].hi.val

\* lines 98-101: one iteration of the first loop
RegisterRangeFwd(c) ==
    /\ pc[c] = "range_fwd"
    /\ id_subscriber_map' = AddMember(id_subscriber_map, args[c].i, args[c].q)
    /\ iter' \in IterAfterAdd(id_subscriber_map, args[c].i, args[c].q)
    /\ IF args[c].i < RangeLast(c)
       THEN /\ args' = [args EXCEPT ![c].i = @ + 1]
            /\ UNCHANGED pc
       ELSE /\ args' = [args EXCEPT ![c].i = args[c].lo.val]
            /\ pc' = [pc EXCEPT ![c] = "range_rev"]
    /\ UNCHANGED <<subscriber_id_map, lock, result, serial, entry, rel>>
    /\ UNCHANGED <<rxVars, txVars, lifeVars, rxStable>>

\* RegisterRangeRev without the second loop
RegisterRangeRev_NoReverse(c) ==
    /\ pc[c] = "range_rev"
    /\ lock' = None
    /\ entry' = NoEntry
    /\ Return(c, "ok")
    /\ UNCHANGED <<id_subscriber_map, subscriber_id_map, serial, rel>>
    /\ UNCHANGED <<rxVars, txVars, lifeVars, iter, rxStable>>

\* lines 103-108: one iteration of the second loop (the first one creates the
\* entry of the queue); the last one is followed by the release of the lock
RegisterRangeRev(c) ==
    /\ pc[c] = "range_rev"
    /\ subscriber_id_map' = AddMember(subscriber_id_map, args[c].q, args[c].i)
    /\ IF args[c].i < RangeLast(c)
       THEN /\ args' = [args EXCEPT ![c].i = @ + 1]
            /\ UNCHANGED <<pc, result, lock, entry>>
       ELSE /\ lock' = None
            /\ entry' = NoEntry
            /\ Return(c, "ok")
    /\ UNCHANGED <<id_subscriber_map, serial, rel>>
    /\ UNCHANGED <<rxVars, txVars, lifeVars, iter, rxStable>>

\* deregister_subscriber(can_id, queue), lines 112-114: `with self.lock`, then
\* the check; the exception releases the lock and leaves the call
Deregister(c, v, q) ==
    /\ pc[c] = "idle"
    /\ LockFree
    /\ IF DeregisterCheck(id_subscriber_map, subscriber_id_map, v, q) # "ok"
       THEN /\ Return(c, DeregisterCheck(id_subscriber_map, subscriber_id_map, v, q))
            /\ UNCHANGED <<lock, serial, entry, rel>>
       ELSE /\ lock' = c
            /\ pc' = [pc EXCEPT ![c] = "dereg_fwd"]
            /\ args' = [args EXCEPT ![c] = [NoArgs EXCEPT !.op = "dereg", !.id = v, !.q = q]]
            /\ serial' = ApplyDeregister(serial, v, q)
            /\ entry' = <<id_subscriber_map, subscriber_id_map>>
            /\ rel' = rel \ {<<v.val, q>>}
            /\ UNCHANGED result
    /\ UNCHANGED <<id_subscriber_map, subscriber_id_map>>
    /\ UNCHANGED <<rxVars, txVars, lifeVars, iter, rxStable>>

\* DeregisterFwd leaving the queue in the entry of the identifier
DeregisterFwd_KeepQueue(c) ==
    /\ pc[c] = "dereg_fwd"
    /\ pc' = [pc EXCEPT ![c] = "dereg_rev"]
    /\ UNCHANGED <<id_subscriber_map, subscriber_id_map, lock, args, result, serial, entry, rel>>
    /\ UNCHANGED <<rxVars, txVars, lifeVars, iter, rxStable>>

\* lines 117-123
DeregisterFwd(c) ==
    /\ pc[c] = "dereg_fwd"
    /\ id_subscriber_map' = DropMember(id_subscriber_map, args[c].id.val, args[c].q)
    /\ iter' = IterAfterDrop(id_subscriber_map, args[c].id.val, args[c].q)
    /\ rxStable' = IF rxmsg.id = args[c].id.val THEN rxStable \ {args[c].q} ELSE rxStable
    /\ pc' = [pc EXCEPT ![c] = "dereg_rev"]
    /\ UNCHANGED <<subscriber_id_map, lock, args, result, serial, entry, rel>>
    /\ UNCHANGED <<rxVars, txVars, lifeVars>>

\* DeregisterRev leaving the identifier in the entry of the queue
DeregisterRev_KeepId(c) ==
    /\ pc[c] = "dereg_rev"
    /\ lock' = None
    /\ entry' = NoEntry
    /\ Return(c, "ok")
    /\ UNCHANGED <<id_subscriber_map, subscriber_id_map, serial, rel>>
    /\ UNCHANGED <<rxVars, txVars, lifeVars, iter, rxStable>>

\* lines 126-134, and the release of the lock
DeregisterRev(c) ==
    /\ pc[c] = "dereg_rev"
    /\ subscriber_id_map' = DropMember(subscriber_id_map, args[c].q, args[c].id.val)
    /\ lock' = None
    /\ entry' = NoEntry
    /\ Return(c, "ok")
    /\ UNCHANGED <<id_subscriber_map, serial, rel>>
    /\ UNCHANGED <<rxVars, txVars, lifeVars, iter, rxStable>>

\* a step of caller c inside a critical section
LockedStep(c) ==
    \/ RegisterSingleFwd(c)
    \/ RegisterSingleRev(c)
    \/ RegisterRangeFwd(c)
    \/ RegisterRangeRev(c)
    \/ DeregisterFwd(c)
    \/ DeregisterRev(c)

\* a step of caller c, its can_id arguments drawn from V
CallerStepOver(c, V) ==
    \/ \E v \in V, q \in Queues : RegisterSingle(c, v, q)
    \/ \E hi \in V, lo \in V, q \in Queues : RegisterRange(c, hi, lo, q)
    \/ \E v \in V, q \in Queues : Deregister(c, v, q)
    \/ LockedStep(c)

\* a step of caller c
CallerStep(c) == CallerStepOver(c, IdValues)

\* the can_id arguments that pass validation, and those with the first
\* identifier beyond the range
ValidIdValues == {v \in IdValues : ValidateCanId(v) = "ok"}
RegIdValues == ValidIdValues \cup {IntVal(CAN_ID_LIMIT)}

----------------------------------------------------------------------------
NoMsg == [id |-> -1, n |-> 0]

\* Init with the flag set at construction
Init_Running ==
    /\ id_subscriber_map = EmptyDict
    /\ subscriber_id_map = EmptyDict
    /\ lock = None
    /\ pc = [c \in Callers |-> "idle"]
    /\ args = [c \in Callers |-> NoArgs]
    /\ result = [c \in Callers |-> "none"]
    /\ serial = <<EmptyDict, EmptyDict>>
    /\ entry = NoEntry
    /\ rel = {}
    /\ is_running = TRUE
    /\ rxpc = "init"
    /\ rxmsg = NoMsg
    /\ iter = NoIter
    /\ rxcur = None
    /\ nrecv = 0
    /\ inbox = [q \in Queues |-> <<>>]
    /\ errlog = {}
    /\ rxStable = {}
    /\ lpc = "idle"
    /\ lres = "none"
    /\ bus = None
    /\ iface = "unset"
    /\ nstop = 0
    /\ stopped = FALSE
    /\ txpc = "init"
    /\ txmsg = NoMsg
    /\ command_queue = <<>>
    /\ nprod = 0
    /\ sent = <<>>
    /\ txerr = {}
    /\ taken = <<>>
    /\ passed = <<>>
    /\ sres = "none"

\* the state after CanManager.__init__
Init ==
    /\ id_subscriber_map = EmptyDict
    /\ subscriber_id_map = EmptyDict
    /\ lock = None
    /\ pc = [c \in Callers |-> "idle"]
    /\ args = [c \in Callers |-> NoArgs]
    /\ result = [c \in Callers |-> "none"]
    /\ serial = <<EmptyDict, EmptyDict>>
    /\ entry = NoEntry
    /\ rel = {}
    /\ is_running = FALSE
    /\ rxpc = "init"
    /\ rxmsg = NoMsg
    /\ iter = NoIter
    /\ rxcur = None
    /\ nrecv = 0
    /\ inbox = [q \in Queues |-> <<>>]
    /\ errlog = {}
    /\ rxStable = {}
    /\ lpc = "idle"
    /\ lres = "none"
    /\ bus = None
    /\ iface = "unset"
    /\ nstop = 0
    /\ stopped = FALSE
    /\ txpc = "init"
    /\ txmsg = NoMsg
    /\ command_queue = <<>>
    /\ nprod = 0
    /\ sent = <<>>
    /\ txerr = {}
    /\ taken = <<>>
    /\ passed = <<>>
    /\ sres = "none"

----------------------------------------------------------------------------
\* The receiver thread (_receive_can_messages)

\* queues subscribed to identifier k in both views
Subscribers(k) ==
    {q \in Queues : /\ k \in DOMAIN id_subscriber_map
                    /\ q \in id_subscriber_map[k]
                    /\ q \in DOMAIN subscriber_id_map
                    /\ k \in subscriber_id_map[q]}

\* the loop body is left (normally, or through `except Exception`) for the
\* next `while self.is_running` test
EndDispatch ==
    /\ rxpc' = "top"
    /\ rxmsg' = NoMsg
    /\ iter' = NoIter
    /\ rxcur' = None
    /\ rxStable' = {}

\* line 138: while self.is_running
RxLoopTest ==
    /\ rxpc = "top"
    /\ rxpc' = IF is_running THEN "recv" ELSE "done"
    /\ UNCHANGED <<regVars, txVars, lifeVars, is_running, rxmsg, iter, rxcur, nrecv, inbox, errlog, rxStable>>

\* lines 140-143: bus.recv returns a frame with arbitration_id k, as one of
\* at most `limit` frames
RxRecv(k, limit) ==
    /\ rxpc = "recv"
    /\ nrecv < limit
    /\ nrecv' = nrecv + 1
    /\ rxmsg' = [id |-> k, n |-> nrecv + 1]
    /\ rxStable' = Subscribers(k)
    /\ rxpc' = "check"
    /\ UNCHANGED <<regVars, txVars, lifeVars, is_running, iter, rxcur, inbox, errlog>>

\* the same with the number of frames bounded by MaxMsgs
RxRecvMessage(k) == RxRecv(k, MaxMsgs)

\* lines 140-141: bus.recv times out and returns None
RxRecvTimeout ==
    /\ rxpc = "recv"
    /\ rxpc' = "top"
    /\ UNCHANGED <<regVars, txVars, lifeVars, is_running, rxmsg, iter, rxcur, nrecv, inbox, errlog, rxStable>>

\* line 144: if can_id in self.id_subscriber_map
RxCheck ==
    /\ rxpc = "check"
    /\ IF rxmsg.id \in DOMAIN id_subscriber_map
       THEN /\ rxpc' = "fetch"
            /\ UNCHANGED <<rxmsg, iter, rxcur, rxStable>>
       ELSE EndDispatch
    /\ UNCHANGED <<regVars, txVars, lifeVars, is_running, nrecv, inbox, errlog>>

\* RxFetch with the fan-out going to the subscribers of every identifier
RxFetch_AllSubscribers ==
    /\ rxpc = "fetch"
    /\ IF rxmsg.id \in DOMAIN id_subscriber_map
       THEN /\ iter' = [key |-> rxmsg.id, attached |-> TRUE,
                        used |-> Cardinality(id_subscriber_map[rxmsg.id]),
                        ahead |-> DOMAIN subscriber_id_map]
            /\ rxpc' = "next"
            /\ UNCHANGED <<rxmsg, rxcur, errlog, rxStable>>
       ELSE /\ errlog' = errlog \cup {[n |-> rxmsg.n, kind |-> "KeyError", q |-> None]}
            /\ EndDispatch
    /\ UNCHANGED <<regVars, txVars, lifeVars, is_running, nrecv, inbox>>

\* line 145: self.id_subscriber_map[can_id] (KeyError when the entry has been
\* deleted since line 144), and iter() of the set
RxFetch ==
    /\ rxpc = "fetch"
    /\ IF rxmsg.id \in DOMAIN id_subscriber_map
       THEN /\ iter' = [key |-> rxmsg.id, attached |-> TRUE,
                        used |-> Cardinality(id_subscriber_map[rxmsg.id]),
                        ahead |-> id_subscriber_map[rxmsg.id]]
            /\ rxpc' = "next"
            /\ UNCHANGED <<rxmsg, rxcur, errlog, rxStable>>
       ELSE /\ errlog' = errlog \cup {[n |-> rxmsg.n, kind |-> "KeyError", q |-> None]}
            /\ EndDispatch
    /\ UNCHANGED <<regVars, txVars, lifeVars, is_running, nrecv, inbox>>

\* line 145: next() of the set iterator: RuntimeError ("Set changed size
\* during iteration"), StopIteration, or the next member
RxNext ==
    /\ rxpc = "next"
    /\ IF Cardinality(IterSet) # iter.used
       THEN /\ errlog' = errlog \cup {[n |-> rxmsg.n, kind |-> "RuntimeError", q |-> None]}
            /\ EndDispatch
       ELSE IF iter.ahead = {}
       THEN /\ EndDispatch
            /\ UNCHANGED errlog
       ELSE /\ \E q \in iter.ahead :
                 /\ rxcur' = q
                 /\ iter' = [iter EXCEPT !.ahead = @ \ {q}]
            /\ rxpc' = "put"
            /\ UNCHANGED <<rxmsg, errlog, rxStable>>
    /\ UNCHANGED <<regVars, txVars, lifeVars, is_running, nrecv, inbox>>

\* RxPut with the message put at the head of the queue
RxPut_AtHead ==
    /\ rxpc = "put"
    /\ Len(inbox[rxcur]) < MaxInbox
    /\ inbox' = [inbox EXCEPT ![rxcur] = <<rxmsg>> \o @]
    /\ rxcur' = None
    /\ rxpc' = "next"
    /\ UNCHANGED <<regVars, txVars, lifeVars, is_running, rxmsg, iter, nrecv, errlog, rxStable>>

\* line 146: queue.put(message); it blocks while the queue is full
RxPut ==
    /\ rxpc = "put"
    /\ Len(inbox[rxcur]) < MaxInbox
    /\ inbox' = [inbox EXCEPT ![rxcur] = Append(@, rxmsg)]
    /\ rxcur' = None
    /\ rxpc' = "next"
    /\ UNCHANGED <<regVars, txVars, lifeVars, is_running, rxmsg, iter, nrecv, errlog, rxStable>>

\* lines 146-148: queue.put(message) raises (the queue is closed, say); the
\* handler around the loop body logs it
RxPutRaise ==
    /\ rxpc = "put"
    /\ errlog' = errlog \cup {[n |-> rxmsg.n, kind |-> "put", q |-> rxcur]}
    /\ EndDispatch
    /\ UNCHANGED <<regVars, txVars, lifeVars, is_running, nrecv, inbox>>

\* RxRecvRaise with the exception ending the loop
RxRecvRaise_EndsLoop ==
    /\ rxpc = "recv"
    /\ errlog' = errlog \cup {[n |-> nrecv, kind |-> "recv", q |-> None]}
    /\ rxpc' = "done"
    /\ UNCHANGED <<regVars, txVars, lifeVars, is_running, rxmsg, iter, rxcur, nrecv, inbox, rxStable>>

\* lines 140, 147-148: bus.recv raises (after nrecv frames were received);
\* the handler logs it and the loop goes to its next iteration
RxRecvRaise ==
    /\ rxpc = "recv"
    /\ errlog' = errlog \cup {[n |-> nrecv, kind |-> "recv", q |-> None]}
    /\ rxpc' = "top"
    /\ UNCHANGED <<regVars, txVars, lifeVars, is_running, rxmsg, iter, rxcur, nrecv, inbox, rxStable>>

\* a step of the receiver thread in which every put succeeds
RxStep ==
    \/ RxLoopTest
    \/ \E k \in BusIds : RxRecvMessage(k)
    \/ RxRecvTimeout
    \/ RxCheck
    \/ RxFetch
    \/ RxNext
    \/ RxPut

----------------------------------------------------------------------------
\* Lifecycle: start() and stop(), called by one thread of the application

\* the None that stop() puts on the command queue
Sentinel == NoMsg

\* the call returns (r ends in "_ok") or raises r
LifeReturn(r) ==
    /\ lpc' = "idle"
    /\ lres' = r

\* start(), line 32: the flag is set first
Start ==
    /\ lpc = "idle"
    /\ is_running' = TRUE
    /\ lpc' = "start_bus"
    /\ UNCHANGED <<regVars, txVars, rxpc, rxmsg, iter, rxcur, nrecv, inbox, errlog, rxStable>>
    /\ UNCHANGED <<lres, bus, iface, nstop, stopped>>

\* lines 35-39: the interface is configured and brought up, the bus opened
StartBus ==
    /\ lpc = "start_bus"
    /\ iface' = "up"
    /\ bus' = "open"
    /\ lpc' = "start_rx"
    /\ UNCHANGED <<regVars, rxVars, txVars, iter, rxStable>>
    /\ UNCHANGED <<lres, nstop, stopped>>

\* lines 35-39: can.interface.Bus raises; the exception leaves start()
StartBusFail ==
    /\ lpc = "start_bus"
    /\ iface' \in {iface, "up"}
    /\ LifeReturn("start_BusError")
    /\ UNCHANGED <<regVars, rxVars, txVars, iter, rxStable>>
    /\ UNCHANGED <<bus, nstop, stopped>>

\* line 41: receiver_thread.start(); a Thread can be started only once
StartReceiver ==
    /\ lpc = "start_rx"
    /\ IF rxpc = "init"
       THEN /\ rxpc' = "top"
            /\ lpc' = "start_tx"
            /\ UNCHANGED lres
       ELSE /\ LifeReturn("start_RuntimeError")
            /\ UNCHANGED rxpc
    /\ UNCHANGED <<regVars, txVars, is_running, rxmsg, iter, rxcur, nrecv, inbox, errlog, rxStable>>
    /\ UNCHANGED <<bus, iface, nstop, stopped>>

\* line 42: sender_thread.start()
StartSender ==
    /\ lpc = "start_tx"
    /\ IF txpc = "init"
       THEN /\ txpc' = "top"
            /\ LifeReturn("start_ok")
       ELSE /\ LifeReturn("start_RuntimeError")
            /\ UNCHANGED txpc
    /\ UNCHANGED <<regVars, rxVars, iter, rxStable>>
    /\ UNCHANGED <<txmsg, command_queue, nprod, sent, txerr, taken, passed, sres>>
    /\ UNCHANGED <<bus, iface, nstop, stopped>>

\* stop(), line 46: the flag is cleared first
Stop ==
    /\ lpc = "idle"
    /\ nstop < MaxStops
    /\ nstop' = nstop + 1
    /\ is_running' = FALSE
    /\ lpc' = "stop_put"
    /\ UNCHANGED <<regVars, txVars, rxpc, rxmsg, iter, rxcur, nrecv, inbox, errlog, rxStable>>
    /\ UNCHANGED <<lres, bus, iface, stopped>>

\* line 49: command_queue.put(None)
StopPut ==
    /\ lpc = "stop_put"
    /\ command_queue' = Append(command_queue, Sentinel)
    /\ lpc' = "stop_join_rx"
    /\ UNCHANGED <<regVars, rxVars, iter, rxStable>>
    /\ UNCHANGED <<txpc, txmsg, nprod, sent, txerr, taken, passed, sres>>
    /\ UNCHANGED <<lres, bus, iface, nstop, stopped>>

\* StopJoinReceiver not waiting for the thread
StopJoinReceiver_NoWait ==
    /\ lpc = "stop_join_rx"
    /\ IF rxpc = "init"
       THEN LifeReturn("stop_RuntimeError")
       ELSE /\ lpc' = "stop_join_tx"
            /\ UNCHANGED lres
    /\ UNCHANGED <<regVars, rxVars, txVars, iter, rxStable>>
    /\ UNCHANGED <<bus, iface, nstop, stopped>>

\* line 52: receiver_thread.join(): RuntimeError for a thread that was never
\* started, else it waits until the thread has ended
StopJoinReceiver ==
    /\ lpc = "stop_join_rx"
    /\ IF rxpc = "init"
       THEN LifeReturn("stop_RuntimeError")
       ELSE /\ rxpc = "done"
            /\ lpc' = "stop_join_tx"
            /\ UNCHANGED lres
    /\ UNCHANGED <<regVars, rxVars, txVars, iter, rxStable>>
    /\ UNCHANGED <<bus, iface, nstop, stopped>>

\* StopJoinSender not waiting for the thread
StopJoinSender_NoWait ==
    /\ lpc = "stop_join_tx"
    /\ IF txpc = "init"
       THEN LifeReturn("stop_RuntimeError")
       ELSE /\ lpc' = "stop_down"
            /\ UNCHANGED lres
    /\ UNCHANGED <<regVars, rxVars, txVars, iter, rxStable>>
    /\ UNCHANGED <<bus, iface, nstop, stopped>>

\* line 53: sender_thread.join()
StopJoinSender ==
    /\ lpc = "stop_join_tx"
    /\ IF txpc = "init"
       THEN LifeReturn("stop_RuntimeError")
       ELSE /\ txpc = "done"
            /\ lpc' = "stop_down"
            /\ UNCHANGED lres
    /\ UNCHANGED <<regVars, rxVars, txVars, iter, rxStable>>
    /\ UNCHANGED <<bus, iface, nstop, stopped>>

\* line 57: the interface is brought down (os.system does not raise when the
\* command fails)
StopDown ==
    /\ lpc = "stop_down"
    /\ iface' = "down"
    /\ lpc' = "stop_return"
    /\ UNCHANGED <<regVars, rxVars, txVars, iter, rxStable>>
    /\ UNCHANGED <<lres, bus, nstop, stopped>>

\* lines 58-63: the flag is cleared once more and stop() returns
StopReturn ==
    /\ lpc = "stop_return"
    /\ is_running' = FALSE
    /\ stopped' = TRUE
    /\ LifeReturn("stop_ok")
    /\ UNCHANGED <<regVars, txVars, rxpc, rxmsg, iter, rxcur, nrecv, inbox, errlog, rxStable>>
    /\ UNCHANGED <<bus, iface, nstop>>

\* a step of the thread inside start()
StartStep ==
    \/ StartBus
    \/ StartReceiver
    \/ StartSender

\* a step of the thread inside stop()
StopStep ==
    \/ StopPut
    \/ StopJoinReceiver
    \/ StopJoinSender
    \/ StopDown
    \/ StopReturn

----------------------------------------------------------------------------
\* The command queue and the sender thread (_send_can_messages)

\* the owner of the command queue puts a message with arbitration_id k on it,
\* as one of at most `limit` messages
Put(k, limit) ==
    /\ nprod < limit
    /\ nprod' = nprod + 1
    /\ command_queue' = Append(command_queue, [id |-> k, n |-> nprod + 1])
    /\ UNCHANGED <<regVars, rxVars, lifeVars, iter, rxStable>>
    /\ UNCHANGED <<txpc, txmsg, sent, txerr, taken, passed, sres>>

\* the same with the number of messages bounded by MaxCmds
Produce(k) == Put(k, MaxCmds)

\* a payload of a CAN frame has at most 8 bytes
MaxPayload == 8

\* the lengths of the payloads passed to send
PayloadLens == {MaxPayload, MaxPayload + 1}

\* the identifiers passed to send: 0x7FF and those that are no 11-bit integer
SendIdValues == {IntVal(-1), IntVal(CAN_ID_LIMIT - 1), IntVal(CAN_ID_LIMIT), StrVal}

\* the errors a call send(v, payload of l bytes) can end with: NotRunning
\* when the router is not running, the error of _validate_can_id for the
\* identifier, PayloadTooLarge for a payload of more than 8 bytes
SendErrors(v, l) ==
    (IF is_running THEN {} ELSE {"NotRunning"})
       \cup (IF ValidateCanId(v) # "ok" THEN {ValidateCanId(v)}
             ELSE IF l > MaxPayload THEN {"PayloadTooLarge"}
             ELSE {})

\* send(v, payload of l bytes): it fails with one of its errors, or puts the
\* message on the command queue
Send(v, l) ==
    /\ IF SendErrors(v, l) # {}
       THEN /\ sres' \in SendErrors(v, l)
            /\ UNCHANGED <<command_queue, nprod>>
       ELSE /\ nprod < MaxCmds
            /\ nprod' = nprod + 1
            /\ command_queue' = Append(command_queue, [id |-> v.val, n |-> nprod + 1, dlc |-> l])
            /\ sres' = "ok"
    /\ UNCHANGED <<regVars, rxVars, lifeVars, iter, rxStable>>
    /\ UNCHANGED <<txpc, txmsg, sent, txerr, taken, passed>>

\* TxLoopTest with a loop that does not look at the flag
TxLoopTest_IgnoreFlag ==
    /\ txpc = "top"
    /\ txpc' = "get"
    /\ UNCHANGED <<regVars, rxVars, lifeVars, iter, rxStable>>
    /\ UNCHANGED <<txmsg, command_queue, nprod, sent, txerr, taken, passed, sres>>

\* line 152: while self.is_running
TxLoopTest ==
    /\ txpc = "top"
    /\ txpc' = IF is_running THEN "get" ELSE "done"
    /\ UNCHANGED <<regVars, rxVars, lifeVars, iter, rxStable>>
    /\ UNCHANGED <<txmsg, command_queue, nprod, sent, txerr, taken, passed, sres>>

\* what command_queue.get returned is a message, not None
IsMessage(m) == m # Sentinel

\* TxGet without the test for None
TxGet_ForwardNone ==
    /\ txpc = "get"
    /\ command_queue # <<>>
    /\ command_queue' = Tail(command_queue)
    /\ txpc' = "send"
    /\ txmsg' = Head(command_queue)
    /\ taken' = IF IsMessage(Head(command_queue)) THEN Append(taken, Head(command_queue)) ELSE taken
    /\ UNCHANGED <<regVars, rxVars, lifeVars, iter, rxStable>>
    /\ UNCHANGED <<nprod, sent, txerr, passed, sres>>

\* lines 154-155: command_queue.get returns the head of the queue, a message
\* or None
TxGet ==
    /\ txpc = "get"
    /\ command_queue # <<>>
    /\ command_queue' = Tail(command_queue)
    /\ IF Head(command_queue) = Sentinel
       THEN /\ txpc' = "top"
            /\ UNCHANGED <<txmsg, taken>>
       ELSE /\ txpc' = "send"
            /\ txmsg' = Head(command_queue)
            /\ taken' = Append(taken, Head(command_queue))
    /\ UNCHANGED <<regVars, rxVars, lifeVars, iter, rxStable>>
    /\ UNCHANGED <<nprod, sent, txerr, passed, sres>>

\* lines 154, 159-160: the queue stays empty for the time-out; get raises
\* queue.Empty, which the handler logs
TxGetEmpty ==
    /\ txpc = "get"
    /\ command_queue = <<>>
    /\ txpc' = "top"
    /\ UNCHANGED <<regVars, rxVars, lifeVars, iter, rxStable>>
    /\ UNCHANGED <<txmsg, command_queue, nprod, sent, txerr, taken, passed, sres>>

\* lines 156-158: bus.send(message)
TxSend ==
    /\ txpc = "send"
    /\ passed' = Append(passed, txmsg)
    /\ sent' = Append(sent, txmsg)
    /\ txmsg' = NoMsg
    /\ txpc' = "top"
    /\ UNCHANGED <<regVars, rxVars, lifeVars, iter, rxStable>>
    /\ UNCHANGED <<command_queue, nprod, txerr, taken, sres>>

\* TxSendRaise with the message of a failed send put back on the queue
TxSendRaise_Requeue ==
    /\ txpc = "send"
    /\ passed' = Append(passed, txmsg)
    /\ txerr' = txerr \cup {txmsg.n}
    /\ command_queue' = Append(command_queue, txmsg)
    /\ txmsg' = NoMsg
    /\ txpc' = "top"
    /\ UNCHANGED <<regVars, rxVars, lifeVars, iter, rxStable>>
    /\ UNCHANGED <<nprod, sent, taken, sres>>

\* lines 158-160: bus.send raises; the handler logs it
TxSendRaise ==
    /\ txpc = "send"
    /\ passed' = Append(passed, txmsg)
    /\ txerr' = txerr \cup {txmsg.n}
    /\ txmsg' = NoMsg
    /\ txpc' = "top"
    /\ UNCHANGED <<regVars, rxVars, lifeVars, iter, rxStable>>
    /\ UNCHANGED <<command_queue, nprod, sent, taken, sres>>

\* a step of the sender thread
TxStep ==
    \/ TxLoopTest
    \/ TxGet
    \/ TxGetEmpty
    \/ TxSend
    \/ TxSendRaise

----------------------------------------------------------------------------
\* Specifications

AllIdle == \A c \in Callers : pc[c] = "idle"
RxQuiet == rxpc \in {"init", "top", "recv", "done"}

\* The registry under concurrent callers (the receiver thread not started);
\* SpecCall has the remaining argument values
NextReg == \E c \in Callers : CallerStepOver(c, RegIdValues)
SpecReg == Init /\ [][NextReg]_vars

\* The registration API used by one thread, with every argument value
NextCall == CallerStep("c1")
SpecCall == Init /\ [][NextCall]_vars

\* One thread of control at a time: no registry call overlaps the dispatch
\* of a message, every put succeeds, and the registry calls are made with
\* valid identifiers (SpecReg has the invalid ones).  start() is called once;
\* the sender thread has nothing to send
NextSeq ==
    \/ AllIdle /\ lres = "none" /\ Start
    \/ StartBus
    \/ StartReceiver
    \/ StartSender
    \/ AllIdle /\ lpc = "idle" /\ RxLoopTest
    \/ AllIdle /\ lpc = "idle" /\ \E k \in BusIds : RxRecvMessage(k)
    \/ AllIdle /\ lpc = "idle" /\ RxRecvTimeout
    \/ AllIdle /\ lpc = "idle" /\ RxCheck
    \/ AllIdle /\ lpc = "idle" /\ RxFetch
    \/ AllIdle /\ lpc = "idle" /\ RxNext
    \/ AllIdle /\ lpc = "idle" /\ RxPut
    \/ RxQuiet /\ lpc = "idle" /\ \E v \in ValidIdValues, q \in Queues : RegisterSingle("c1", v, q)
    \/ RxQuiet /\ lpc = "idle" /\ \E hi \in ValidIdValues, lo \in ValidIdValues, q \in Queues :
                      RegisterRange("c1", hi, lo, q)
    \/ RxQuiet /\ lpc = "idle" /\ \E v \in ValidIdValues, q \in Queues : Deregister("c1", v, q)
    \/ RxQuiet /\ lpc = "idle" /\ RegisterSingleFwd("c1")
    \/ RxQuiet /\ lpc = "idle" /\ RegisterSingleRev("c1")
    \/ RxQuiet /\ lpc = "idle" /\ RegisterRangeFwd("c1")
    \/ RxQuiet /\ lpc = "idle" /\ RegisterRangeRev("c1")
    \/ RxQuiet /\ lpc = "idle" /\ DeregisterFwd("c1")
    \/ RxQuiet /\ lpc = "idle" /\ DeregisterRev("c1")
SpecSeq == Init /\ [][NextSeq]_vars

\* As SpecSeq, with puts that raise
NextFail ==
    \/ NextSeq
    \/ AllIdle /\ lpc = "idle" /\ RxPutRaise
SpecFail == Init /\ [][NextFail]_vars

\* The receiver thread running concurrently with a caller that passes valid
\* identifiers; every put succeeds
NextConc ==
    \/ lres = "none" /\ Start
    \/ StartBus
    \/ StartReceiver
    \/ StartSender
    \/ RxStep
    \/ CallerStepOver("c1", ValidIdValues)
SpecConc == Init /\ [][NextConc]_vars

\* As SpecCall, with single registrations of identifier 0 as well
EdgeIdValues == IdValues \cup {IntVal(0)}
NextValid ==
    \/ CallerStep("c1")
    \/ \E q \in Queues : RegisterSingle("c1", IntVal(0), q)
SpecValid == Init /\ [][NextValid]_vars

\* The lifecycle: single registrations for identifier 0x7FF made before the
\* first call of start() or stop(), then start() and stop() in any order,
\* called by one thread, with the receiver thread, the sender thread and the
\* owner of the command queue running concurrently; the frames received and
\* the messages to send carry identifier 0x7FF; every put succeeds
LifeIds == {CAN_ID_LIMIT - 1}
NextLife ==
    \/ lres = "none" /\ lpc = "idle"
          /\ \E k \in LifeIds, q \in Queues : RegisterSingle("c1", IntVal(k), q)
    \/ RegisterSingleFwd("c1")
    \/ RegisterSingleRev("c1")
    \/ AllIdle /\ Start
    \/ StartBus
    \/ StartReceiver
    \/ StartSender
    \/ AllIdle /\ Stop
    \/ StopPut
    \/ StopJoinReceiver
    \/ StopJoinSender
    \/ StopDown
    \/ StopReturn
    \/ RxLoopTest
    \/ \E k \in LifeIds : RxRecvMessage(k)
    \/ RxRecvTimeout
    \/ RxCheck
    \/ RxFetch
    \/ RxNext
    \/ RxPut
    \/ \E k \in LifeIds : Produce(k)
    \/ TxLoopTest
    \/ TxGet
    \/ TxGetEmpty
    \/ TxSend
    \/ TxSendRaise
SpecLife == Init /\ [][NextLife]_vars

\* SpecLife with the scheduling of the threads: a thread that can take a step
\* takes one (bus.recv and command_queue.get return after their time-out,
\* puts on the endpoint queues and bus.send return or raise)
SpecLifeFair ==
    /\ SpecLife
    /\ WF_vars(RxStep)
    /\ WF_vars(TxStep)
    /\ WF_vars(StopStep)

\* As SpecLife, with calls of start() in which the bus cannot be opened
NextLifeFail ==
    \/ NextLife
    \/ StartBusFail
SpecLifeFail == Init /\ [][NextLifeFail]_vars

\* Registrations, then start() and stop() with the receiver reading a bus on
\* which reads may fail
NextRecv ==
    \/ lres = "none" /\ lpc = "idle"
          /\ \E k \in LifeIds, q \in Queues : RegisterSingle("c1", IntVal(k), q)
    \/ RegisterSingleFwd("c1")
    \/ RegisterSingleRev("c1")
    \/ AllIdle /\ lres = "none" /\ Start
    \/ StartBus
    \/ StartReceiver
    \/ StartSender
    \/ AllIdle /\ Stop
    \/ StopPut
    \/ StopJoinReceiver
    \/ StopJoinSender
    \/ StopDown
    \/ StopReturn
    \/ RxLoopTest
    \/ \E k \in LifeIds : RxRecvMessage(k)
    \/ RxRecvTimeout
    \/ RxRecvRaise
    \/ RxCheck
    \/ RxFetch
    \/ RxNext
    \/ RxPut
    \/ TxLoopTest
    \/ TxGet
    \/ TxGetEmpty
SpecRecv == Init /\ [][NextRecv]_vars

\* start() and stop() with the sender thread working on a command queue that
\* gets more than one message; the receiver only waits for frames
NextTx ==
    \/ lres = "none" /\ Start
    \/ StartBus
    \/ StartReceiver
    \/ StartSender
    \/ Stop
    \/ StopPut
    \/ StopJoinReceiver
    \/ StopJoinSender
    \/ StopDown
    \/ StopReturn
    \/ RxLoopTest
    \/ RxRecvTimeout
    \/ \E k \in LifeIds : Put(k, MaxCmds + 1)
    \/ TxLoopTest
    \/ TxGet
    \/ TxGetEmpty
    \/ TxSend
    \/ TxSendRaise
SpecTx == Init /\ [][NextTx]_vars

\* The receiver dispatching more than one frame of one identifier while a
\* caller registers endpoints for it and deregisters the first of them
NextOrder ==
    \/ lres = "none" /\ Start
    \/ StartBus
    \/ StartReceiver
    \/ StartSender
    \/ RxLoopTest
    \/ \E k \in LifeIds : RxRecv(k, MaxMsgs + 1)
    \/ RxRecvTimeout
    \/ RxCheck
    \/ RxFetch
    \/ RxNext
    \/ RxPut
    \/ \E k \in LifeIds, q \in Queues : RegisterSingle("c1", IntVal(k), q)
    \/ RegisterSingleFwd("c1")
    \/ RegisterSingleRev("c1")
    \/ \E k \in LifeIds : Deregister("c1", IntVal(k), "Q1")
    \/ DeregisterFwd("c1")
    \/ DeregisterRev("c1")
SpecOrder == Init /\ [][NextOrder]_vars

\* start() and stop(), the sender thread, and calls of send at any time
NextSend ==
    \/ Start
    \/ StartBus
    \/ StartReceiver
    \/ StartSender
    \/ Stop
    \/ StopPut
    \/ StopJoinReceiver
    \/ StopJoinSender
    \/ StopDown
    \/ StopReturn
    \/ RxLoopTest
    \/ RxRecvTimeout
    \/ \E v \in SendIdValues, l \in PayloadLens : Send(v, l)
    \/ TxLoopTest
    \/ TxGet
    \/ TxGetEmpty
    \/ TxSend
    \/ TxSendRaise
SpecSend == Init /\ [][NextSend]_vars

\* Everything
Next ==
    \/ Start
    \/ StartStep
    \/ StartBusFail
    \/ Stop
    \/ StopStep
    \/ RxStep
    \/ RxPutRaise
    \/ RxRecvRaise
    \/ \E k \in BusIds : Produce(k)
    \/ \E v \in IdValues, l \in PayloadLens : Send(v, l)
    \/ TxStep
    \/ \E c \in Callers : CallerStep(c)
Spec == Init /\ [][Next]_vars

----------------------------------------------------------------------------
\* Properties

\* how often message m has been put on a queue with contents s
Count(s, m) == Cardinality({i \in 1 .. Len(s) : s[i] = m})

\* the entry of identifier k in the forward map (lookup: empty when absent)
Lookup(k) == IF k \in DOMAIN id_subscriber_map THEN id_subscriber_map[k] ELSE {}

\* this step ends the dispatch of the message rxmsg
DispatchEnds == rxmsg # NoMsg /\ rxmsg' = NoMsg

\* C1: dispatch routing.  With the registry as register/deregister calls left
\* it (no call overlapping the dispatch, no put failing), the dispatch of a
\* message with identifier X ends with the message put, once, on exactly the
\* queues subscribed to X and on no other queue; with no subscriber it is
\* dropped: nothing is put and nothing is logged as an error.
C1_DispatchRouting ==
    [][DispatchEnds =>
          /\ \A q \in Queues :
                Count(inbox'[q], rxmsg) = (IF q \in Lookup(rxmsg.id) THEN 1 ELSE 0)
          /\ errlog' = errlog]_vars

\* C1 witness: a dispatch has ended with the message on one queue and not on
\* the other, which is subscribed to another identifier
C1_Witness ==
    /\ nrecv = 1
    /\ rxmsg = NoMsg
    /\ \E q1 \in Queues, q2 \in Queues :
          /\ Len(inbox[q1]) = 1
          /\ Len(inbox[q2]) = 0
          /\ q2 \in DOMAIN subscriber_id_map
          /\ inbox[q1][1].id \notin subscriber_id_map[q2]

\* C2: no message is lost or misrouted under concurrent registration changes:
\* a queue subscribed to X from before the message was received until its
\* dispatch ends has got the message exactly once when the dispatch ends,
\* whatever registry calls ran meanwhile.
C2_NoLossUnderConcurrency ==
    [][DispatchEnds => \A q \in rxStable : Count(inbox'[q], rxmsg) = 1]_vars

\* C3: fan-out independence.  When the put on one endpoint raises, the error
\* is logged, the loop goes on, and every other endpoint subscribed to the
\* identifier still gets the message.
C3_FanOutIndependence ==
    [][DispatchEnds =>
          /\ rxpc' = "top"
          /\ \A q \in Lookup(rxmsg.id) :
                \/ Count(inbox'[q], rxmsg) = 1
                \/ [n |-> rxmsg.n, kind |-> "put", q |-> q] \in errlog']_vars

\* the pairs (identifier, queue) of the forward and of the reverse map
FwdPairs == UNION {{<<k, q>> : q \in id_subscriber_map[k]} : k \in DOMAIN id_subscriber_map}
RevPairs == UNION {{<<k, q>> : k \in subscriber_id_map[q]} : q \in DOMAIN subscriber_id_map}

\* C4: symmetric consistency.  Whenever no call is inside the lock, queue q is
\* in id_subscriber_map[id] if and only if id is in subscriber_id_map[q].
C4_SymmetricConsistency == lock = None => FwdPairs = RevPairs

\* C4 witness: the lock is free, calls have succeeded and failed, and a queue
\* that was deregistered from one identifier is still subscribed to another
C4_Witness ==
    /\ lock = None
    /\ \E c \in Callers, d \in Callers :
          result[c] = "ok" /\ result[d] = "ValueError_not_registered"
    /\ \E q \in DOMAIN subscriber_id_map :
          /\ Cardinality(subscriber_id_map[q]) = 1
          /\ Cardinality(DOMAIN id_subscriber_map) = 2

\* C5: no empty entry.  Whenever no call is inside the lock, no key of
\* id_subscriber_map maps to an empty set of queues and no key of
\* subscriber_id_map maps to an empty set of identifiers.
C5_NoEmptyEntry ==
    lock = None =>
       /\ \A k \in DOMAIN id_subscriber_map : id_subscriber_map[k] # {}
       /\ \A q \in DOMAIN subscriber_id_map : subscriber_id_map[q] # {}

\* C5 witness: both maps are empty again after registrations by both callers
\* and the deregistration of the last members
C5_Witness ==
    /\ lock = None
    /\ DOMAIN id_subscriber_map = {}
    /\ DOMAIN subscriber_id_map = {}
    /\ \A c \in Callers : result[c] = "ok"

\* C6: registry mutations are mutually exclusive and atomic.  At most one call
\* is inside the lock-guarded section, and it is the holder of the lock (so no
\* mutation interleaves with a range registration in mid-batch); when the lock
\* is free the registry equals the result of applying the calls one after the
\* other, in the order in which they took the lock.
C6_MutualExclusionAtomic ==
    /\ \A c \in Callers, d \in Callers : pc[c] # "idle" /\ pc[d] # "idle" => c = d
    /\ \A c \in Callers : pc[c] # "idle" => lock = c
    /\ lock = None => <<id_subscriber_map, subscriber_id_map>> = serial

\* C6 witness: a caller is in the middle of the batch of a range registration
\* after another caller has completed a call
C6_Witness ==
    \E c \in Callers, d \in Callers :
       /\ c # d
       /\ pc[c] = "range_fwd"
       /\ args[c].i > args[c].lo.val
       /\ result[d] = "ok"
       /\ DOMAIN subscriber_id_map # {}

\* C7: range registration postcondition.  When a range registration returns,
\* for every x of the inclusive range [low, high] the forward entry of x
\* contains the queue and the reverse entry of the queue contains x.
C7_RangePostcondition ==
    [][\A c \in Callers :
          pc[c] = "range_rev" /\ pc'[c] = "idle" =>
             \A x \in args[c].lo.val .. args[c].hi.val :
                /\ x \in DOMAIN id_subscriber_map'
                /\ args[c].q \in id_subscriber_map'[x]
                /\ args[c].q \in DOMAIN subscriber_id_map'
                /\ x \in subscriber_id_map'[args[c].q]]_vars

\* C7 witness: a range registration over more than one identifier is at its
\* last step, one identifier of the range being subscribed by another endpoint
\* and one by nobody else
C7_Witness ==
    \E c \in Callers :
       /\ pc[c] = "range_rev"
       /\ args[c].lo.val < args[c].hi.val
       /\ args[c].i = args[c].hi.val
       /\ \E x \in args[c].lo.val .. args[c].hi.val : id_subscriber_map[x] = {args[c].q}
       /\ \E x \in args[c].lo.val .. args[c].hi.val : id_subscriber_map[x] = Queues

\* an int that is an 11-bit identifier
IsElevenBitInt(v) == v.kind = "int" /\ v.val >= 0 /\ v.val <= 2047

\* the step leaves both maps as they were
MapsUnchanged == UNCHANGED <<id_subscriber_map, subscriber_id_map>>

\* C8: registration with an invalid identifier mutates nothing: the call
\* raises the validation error at once and both maps stay as they were
\* (single registration with an invalid id, range registration with either
\* bound invalid).
C8_InvalidIdMutatesNothing ==
    [][\A c \in Callers, q \in Queues :
          /\ \A v \in IdValues :
                ~IsElevenBitInt(v) /\ RegisterSingle(c, v, q) =>
                   /\ pc'[c] = "idle"
                   /\ result'[c] \in {"TypeError", "ValueError_out_of_range"}
                   /\ MapsUnchanged
          /\ \A hi \in IdValues, lo \in IdValues :
                (~IsElevenBitInt(hi) \/ ~IsElevenBitInt(lo)) /\ RegisterRange(c, hi, lo, q) =>
                   /\ pc'[c] = "idle"
                   /\ result'[c] \in {"TypeError", "ValueError_out_of_range"}
                   /\ MapsUnchanged]_vars

\* C8 witness: a registration has been rejected for its identifier while the
\* registry holds subscriptions
C8_Witness ==
    /\ \E c \in Callers : result[c] = "ValueError_out_of_range"
    /\ DOMAIN id_subscriber_map # {}
    /\ DOMAIN subscriber_id_map # {}

\* C9: a range registration whose upper bound is less than its lower bound
\* (both valid) raises the range error and leaves both maps as they were; one
\* with upper >= lower is not rejected: it enters the critical section.
C9_ReversedRangeRejected ==
    [][\A c \in Callers, q \in Queues, hi \in IdValues, lo \in IdValues :
          IsElevenBitInt(hi) /\ IsElevenBitInt(lo) /\ RegisterRange(c, hi, lo, q) =>
             IF hi.val < lo.val
             THEN /\ pc'[c] = "idle"
                  /\ result'[c] = "ValueError_lower_greater"
                  /\ MapsUnchanged
             ELSE /\ pc'[c] = "range_fwd"
                  /\ result'[c] = result[c]]_vars

\* C9 witness: a reversed range has been rejected while the registry holds
\* subscriptions
C9_Witness ==
    /\ \E c \in Callers : result[c] = "ValueError_lower_greater"
    /\ DOMAIN id_subscriber_map # {}

\* C10: unsubscribe postcondition.  When deregister_subscriber(id, ep) returns
\* normally, the forward entry of id does not contain ep and the reverse
\* entry of ep does not contain id; an entry whose only member was removed is
\* absent from its map.
C10_UnsubscribePostcondition ==
    [][\A c \in Callers :
          /\ pc[c] = "dereg_fwd" /\ pc'[c] = "dereg_rev" =>
                (id_subscriber_map[args[c].id.val] \subseteq {args[c].q}
                    => args[c].id.val \notin DOMAIN id_subscriber_map')
          /\ pc[c] = "dereg_rev" /\ pc'[c] = "idle" =>
                /\ args[c].id.val \in DOMAIN id_subscriber_map' =>
                      /\ args[c].q \notin id_subscriber_map'[args[c].id.val]
                      /\ id_subscriber_map'[args[c].id.val] # {}
                /\ args[c].q \in DOMAIN subscriber_id_map' =>
                      /\ args[c].id.val \notin subscriber_id_map'[args[c].q]
                      /\ subscriber_id_map'[args[c].q] # {}
                /\ subscriber_id_map[args[c].q] \subseteq {args[c].id.val}
                      => args[c].q \notin DOMAIN subscriber_id_map']_vars

\* C10 witness: a deregistration is at its last step, having removed the only
\* subscriber of the identifier (its entry is gone), the queue keeping
\* another identifier
C10_Witness ==
    \E c \in Callers :
       /\ pc[c] = "dereg_rev"
       /\ args[c].id.val \notin DOMAIN id_subscriber_map
       /\ args[c].id.val \in subscriber_id_map[args[c].q]
       /\ Cardinality(subscriber_id_map[args[c].q]) = 2

\* C11: unsubscribing a pair that is not registered is an error.  For every
\* registry state and every (id, ep) with ep not subscribed to id, also when
\* id has other subscribers and ep other identifiers,
\* deregister_subscriber(id, ep) raises the ValueError and leaves both maps
\* as they were.
C11_UnregisteredPairRaises ==
    [][\A c \in Callers, q \in Queues, v \in IdValues :
          Deregister(c, v, q) /\ <<v.val, q>> \notin FwdPairs =>
             /\ pc'[c] = "idle"
             /\ result'[c] = "ValueError_not_registered"
             /\ MapsUnchanged]_vars

\* C12: deregister_subscriber(id, ep) raises the ValueError whenever id has no
\* entry in the forward map or ep has no entry in the reverse map; the check
\* is made inside the lock (no other call is in its critical section) and
\* before any removal: the call ends there with both maps as they were.
C12_DeregisterCheckFirst ==
    [][\A c \in Callers, q \in Queues, v \in RegIdValues :
          /\ Deregister(c, v, q) => lock = None /\ MapsUnchanged
          /\ Deregister(c, v, q)
                /\ (v.val \notin DOMAIN id_subscriber_map \/ q \notin DOMAIN subscriber_id_map) =>
                   /\ pc'[c] = "idle"
                   /\ lock' = None
                   /\ result'[c] = "ValueError_not_registered"]_vars

\* C12 witness: a deregistration has been rejected while the registry holds
\* one identifier and one queue, another identifier and another queue having
\* no entry
C12_Witness ==
    /\ lock = None
    /\ \E c \in Callers : result[c] = "ValueError_not_registered"
    /\ Cardinality(DOMAIN id_subscriber_map) = 1
    /\ Cardinality(DOMAIN subscriber_id_map) = 1

\* the pairs (identifier, queue) of a forward map and of a reverse map
DictPairs(d) == UNION {{<<k, x>> : x \in d[k]} : k \in DOMAIN d}
EntryFwdPairs == DictPairs(entry[1])
EntryRevPairs == {<<p[2], p[1]>> : p \in DictPairs(entry[2])}

\* the pairs named by the call caller c is executing
NamedPairs(c) ==
    IF args[c].op = "range"
    THEN {<<x, args[c].q>> : x \in args[c].lo.val .. args[c].hi.val}
    ELSE {<<args[c].id.val, args[c].q>>}

\* caller c returns from the critical section of operation op in this step
Returns(c, op) == args[c].op = op /\ pc[c] # "idle" /\ pc'[c] = "idle"

\* C13: subscription is idempotent.  A single registration of a pair that is
\* registered already (as it is after a first call), and a range registration
\* of pairs that all are, are not rejected, return without raising and leave
\* both maps exactly as the call found them.
C13_SubscriptionIdempotent ==
    [][\A c \in Callers :
          /\ \A v \in ValidIdValues, q \in Queues :
                RegisterSingle(c, v, q) /\ <<v.val, q>> \in FwdPairs \cap RevPairs =>
                   pc'[c] = "single_fwd"
          /\ (Returns(c, "single") \/ Returns(c, "range"))
                /\ NamedPairs(c) \subseteq (EntryFwdPairs \cap EntryRevPairs) =>
                   /\ result'[c] = "ok"
                   /\ <<id_subscriber_map', subscriber_id_map'>> = entry]_vars

\* C13 witness: a single registration of a pair that was registered before is
\* at its last step, the identifier having another subscriber too
C13_Witness ==
    \E c \in Callers :
       /\ pc[c] = "single_rev"
       /\ result[c] = "ok"
       /\ <<args[c].id.val, args[c].q>> \in EntryFwdPairs \cap EntryRevPairs
       /\ id_subscriber_map[args[c].id.val] = Queues

\* C14: a degenerate range equals a single registration.  A range
\* registration with lower bound = upper bound = id leaves the two maps that
\* register_subscriber_single_id(id, ep) makes of the maps the call found,
\* and so does the single registration itself.
C14_DegenerateRange ==
    [][\A c \in Callers :
          /\ Returns(c, "range") /\ args[c].lo = args[c].hi =>
                <<id_subscriber_map', subscriber_id_map'>> = ApplySingle(entry, args[c].lo, args[c].q)
          /\ Returns(c, "single") =>
                <<id_subscriber_map', subscriber_id_map'>> = ApplySingle(entry, args[c].id, args[c].q)]_vars

\* C14 witness: a range registration with equal bounds is at its last step;
\* it has added the queue to an identifier that had another subscriber, and
\* the queue is subscribed to another identifier
C14_Witness ==
    \E c \in Callers :
       /\ pc[c] = "range_rev"
       /\ args[c].lo = args[c].hi
       /\ id_subscriber_map[args[c].lo.val] = Queues
       /\ <<args[c].lo.val, args[c].q>> \notin EntryFwdPairs
       /\ args[c].q \in DOMAIN subscriber_id_map

\* C15: registry operations touch only the pairs they name.  A registration
\* returns with the pairs it found plus the pairs it names, in both maps (an
\* endpoint subscribed before keeps every identifier it had); a
\* deregistration returns with the pairs it found minus the one it names; and
\* whenever no call is inside the lock the registry is exactly the set of
\* pairs added and not removed since.
C15_OnlyNamedPairs ==
    [][/\ \A c \in Callers :
             /\ Returns(c, "single") \/ Returns(c, "range") =>
                   /\ FwdPairs' = EntryFwdPairs \cup NamedPairs(c)
                   /\ RevPairs' = EntryRevPairs \cup NamedPairs(c)
             /\ Returns(c, "dereg") =>
                   /\ FwdPairs' = EntryFwdPairs \ NamedPairs(c)
                   /\ RevPairs' = EntryRevPairs \ NamedPairs(c)
       /\ lock' = None => FwdPairs' = rel' /\ RevPairs' = rel']_vars

\* C15 witness: a deregistration is at its last step; the identifier keeps
\* another subscriber and the queue another identifier
C15_Witness ==
    \E c \in Callers :
       /\ pc[c] = "dereg_rev"
       /\ args[c].id.val \in DOMAIN id_subscriber_map
       /\ Cardinality(subscriber_id_map[args[c].q]) = 2
       /\ Cardinality(EntryFwdPairs) = 3

\* C16: identifier validation is a total classification.  _validate_can_id(v)
\* passes if and only if v is an int with 0 <= v <= 0x7FF; it raises the
\* TypeError for every value that is no int and the ValueError for every int
\* that is negative or >= 0x800; it changes no state.
C16_ValidationTotal ==
    [][\A c \in Callers, q \in Queues, v \in EdgeIdValues :
          RegisterSingle(c, v, q) =>
             /\ MapsUnchanged
             /\ IF IsElevenBitInt(v)
                THEN pc'[c] = "single_fwd" /\ result' = result
                ELSE /\ pc'[c] = "idle"
                     /\ lock' = lock
                     /\ result'[c] = IF v.kind # "int" THEN "TypeError"
                                     ELSE "ValueError_out_of_range"]_vars

\* C16 witness: identifiers 0 and 0x7FF have been accepted and the last call
\* was rejected for an identifier out of range
C16_Witness ==
    /\ {0, 2047} \subseteq DOMAIN id_subscriber_map
    /\ \E c \in Callers : result[c] = "ValueError_out_of_range"

\* the positions of the calling thread inside stop()
StopPcs == {"stop_put", "stop_join_rx", "stop_join_tx", "stop_down", "stop_return"}

\* C17: stop() is a complete cancellation.  Once a call of stop() has
\* returned, no message is put on an endpoint queue, none is passed to
\* bus.send, and neither the receiver loop nor the sender loop is executing,
\* whatever was in flight on the bus or queued for sending.
C17_StopCancels ==
    [][stopped =>
          /\ rxpc = "done" /\ rxpc' = "done"
          /\ txpc = "done" /\ txpc' = "done"
          /\ inbox' = inbox
          /\ sent' = sent
          /\ txerr' = txerr]_vars

\* C17 witness: stop() has returned after a message was put on an endpoint
\* queue, with an outgoing message still on the command queue
C17_Witness ==
    /\ stopped
    /\ \E q \in Queues : inbox[q] # <<>>
    /\ \E i \in 1 .. Len(command_queue) : command_queue[i] # Sentinel

\* C18: stop() terminates.  After stop() is called on a router whose loops
\* were started, both loops leave and stop() returns, also when a message is
\* being fanned out or the command queue holds messages.
C18_StopTerminates ==
    (lpc \in StopPcs /\ rxpc # "init" /\ txpc # "init")
       ~> (lpc = "idle" /\ lres = "stop_ok" /\ rxpc = "done" /\ txpc = "done")

\* C18 witness: stop() waits for the receiver thread, which is in the middle
\* of a fan-out, while the command queue holds an outgoing message
C18_Witness ==
    /\ lpc = "stop_join_rx"
    /\ rxpc = "put"
    /\ iter.ahead # {}
    /\ txpc \in {"top", "get"}
    /\ \E i \in 1 .. Len(command_queue) : command_queue[i] # Sentinel

\* C19: teardown ordering in stop().  The flag is cleared first, then the
\* sentinel is put on the command queue, then the receiver and the sender
\* thread are joined, and the interface is brought down only after both have
\* ended: it is never down while a loop may still call bus.recv or bus.send.
C19_TeardownOrder ==
    [][/\ lpc = "idle" /\ lpc' = "stop_put" =>
             ~is_running' /\ command_queue' = command_queue /\ iface' = iface
       /\ lpc = "stop_put" /\ lpc' # lpc =>
             /\ ~is_running
             /\ command_queue' = Append(command_queue, Sentinel)
             /\ lpc' = "stop_join_rx"
             /\ iface' = iface
       /\ lpc = "stop_join_rx" /\ lpc' # lpc /\ rxpc # "init" =>
             rxpc = "done" /\ lpc' = "stop_join_tx" /\ iface' = iface
       /\ lpc = "stop_join_tx" /\ lpc' # lpc /\ txpc # "init" =>
             rxpc = "done" /\ txpc = "done" /\ lpc' = "stop_down" /\ iface' = iface
       /\ iface' # iface /\ iface' = "down" => lpc = "stop_down"
       /\ iface' = "down" => rxpc' = "done" /\ txpc' = "done"]_vars

\* C19 witness: the interface has been brought down after a message was sent
\* and one dispatched, both threads having ended
C19_Witness ==
    /\ lpc = "stop_return"
    /\ iface = "down"
    /\ sent # <<>>
    /\ nrecv > 0
    /\ rxpc = "done"
    /\ txpc = "done"

\* C20: stop() is idempotent.  A call of stop() directly after a stop() that
\* returned does not raise and is a no-op: the flag, the registry, the
\* contents of the command queue and the ended state of the loops stay as
\* the first call left them.
C20_StopIdempotent ==
    [][lres = "stop_ok" /\ lpc' # lpc /\ (lpc \in StopPcs \/ lpc' \in StopPcs) =>
          /\ lres' = "stop_ok"
          /\ UNCHANGED <<is_running, id_subscriber_map, subscriber_id_map>>
          /\ UNCHANGED <<rxpc, txpc>>
          /\ command_queue' = command_queue]_vars

\* C21: a failed start leaves the router stopped.  When the bus cannot be
\* opened inside start() (on a router whose loops were never launched),
\* start() raises, is_running is False afterwards, and neither the receiver
\* loop nor the sender loop has been launched.
C21_FailedStartStopped ==
    [][lpc = "start_bus" /\ lpc' = "idle" /\ rxpc = "init" /\ txpc = "init" =>
          /\ lres' = "start_BusError"
          /\ ~is_running'
          /\ rxpc' = "init"
          /\ txpc' = "init"]_vars

\* C22: stop() is safe after a partial start and before any start.  Called
\* when the loops were never launched (start() failed before launching them,
\* or was never called), stop() does not raise and returns with the flag at
\* stopped.
C22_StopSafeWithoutLoops ==
    [][(lpc \in StopPcs) /\ lpc' = "idle" /\ rxpc = "init" /\ txpc = "init" =>
          /\ lres' = "stop_ok"
          /\ is_running' = FALSE]_vars

\* the loop of a thread is executing
RxLoopRuns == rxpc \notin {"init", "done"}
TxLoopRuns == txpc \notin {"init", "done"}

\* C23: lifecycle transitions are guarded.  The flag goes from stopped to
\* running only inside start() and from running to stopped only inside
\* stop(); while a loop is executing no call of start() opens a bus handle,
\* and start() launches a loop only when that loop was never launched.
C23_LifecycleGuarded ==
    [][/\ ~is_running /\ is_running' => lpc = "idle" /\ lpc' = "start_bus"
       /\ is_running /\ ~is_running' => lpc = "idle" /\ lpc' = "stop_put"
       /\ RxLoopRuns \/ TxLoopRuns => ~(lpc = "start_bus" /\ lpc' = "start_rx")
       /\ lpc = "start_rx" /\ lpc' = "start_tx" => rxpc = "init"
       /\ lpc = "start_tx" /\ lres' = "start_ok" => txpc = "init"]_vars

\* a read of the bus has failed before the frame being dispatched was received
RecvFailedBefore == \E e \in errlog : e.kind = "recv" /\ e.n < rxmsg.n

\* C24: transport read errors are contained.  A step in which bus.recv raises
\* leaves the receiver in its loop, at the next `while` test, and changes
\* nothing any caller can see (no result of a call, no endpoint queue, not
\* the flag); a frame received after a failed read is put once on the queue
\* of each of its subscribers; and the loop ends only with the flag cleared.
C24_RecvErrorsContained ==
    [][/\ rxpc = "recv" /\ errlog' # errlog =>
             /\ rxpc' = "top"
             /\ UNCHANGED <<pc, result, lpc, lres, is_running, inbox>>
       /\ DispatchEnds /\ RecvFailedBefore =>
             \A q \in Queues :
                Count(inbox'[q], rxmsg) = IF q \in Subscribers(rxmsg.id) THEN 1 ELSE 0
       /\ rxpc # "done" /\ rxpc' = "done" => ~is_running]_vars

\* a read failed, the next one returned a frame, and its subscriber has it
C24_Witness ==
    /\ rxpc \notin {"init", "done"}
    /\ rxmsg = NoMsg
    /\ \E e \in errlog : e.kind = "recv" /\ e.n = 0
    /\ \E q \in Queues : Len(inbox[q]) = 1 /\ inbox[q][1].n = 1

\* C25: at-most-once send.  No message is passed to bus.send twice; the step
\* in which bus.send raises logs the error, puts nothing on the command
\* queue and puts nothing on the bus, and leaves the sender without the
\* message at the next `while` test; a message whose send failed is never on
\* the command queue or on the bus again; and the loop ends only with the
\* flag cleared.
C25_AtMostOnceSend ==
    [][/\ \A i, j \in 1 .. Len(passed') : i # j => passed'[i] # passed'[j]
       /\ txpc = "send" /\ txerr' # txerr =>
             /\ txmsg.n \in txerr'
             /\ command_queue' = command_queue
             /\ sent' = sent
             /\ txmsg' = NoMsg
             /\ txpc' = "top"
       /\ \A n \in txerr :
             /\ \A i \in 1 .. Len(command_queue') : command_queue'[i].n # n
             /\ \A i \in 1 .. Len(sent') : sent'[i].n # n
             /\ txmsg'.n # n
       /\ txpc # "done" /\ txpc' = "done" => ~is_running]_vars

\* the send of the first message failed and the second message is on the bus
C25_Witness ==
    /\ txerr = {1}
    /\ Len(passed) = 2
    /\ Len(sent) = 1
    /\ sent[1].n = 2
    /\ txpc # "done"

\* C29: the sender forwards exactly the messages it dequeues.  The arguments
\* of the calls of bus.send are, in this order and unchanged, the messages
\* (not the None sentinels) that command_queue.get has returned, but for the
\* one message the thread holds between get and send; they are the messages
\* put on the queue, in the order of the puts; None is never passed.
C29_ForwardsDequeued ==
    /\ taken = passed \o (IF txpc = "send" THEN <<txmsg>> ELSE <<>>)
    /\ \A i \in 1 .. Len(passed) : passed[i] # Sentinel /\ passed[i].n = i
    /\ txpc # "send" => txmsg = NoMsg

\* two messages and then the None of stop() were taken, and the two messages
\* passed on, the first in a call of bus.send that raised
C29_Witness ==
    /\ Len(taken) = 2
    /\ passed = taken
    /\ passed[1].n \in txerr
    /\ lres = "stop_ok"
    /\ command_queue = <<>>

\* C26: per-subscriber ordering.  Frames are numbered in the order of their
\* arrival from the bus; on every endpoint queue the frames stand in that
\* order, whatever calls of register and deregister run meanwhile: no frame
\* stands before a frame that arrived earlier.
C26_ArrivalOrder ==
    \A q \in Queues :
       \A i, j \in 1 .. Len(inbox[q]) : i < j => inbox[q][i].n <= inbox[q][j].n

\* one endpoint has the first and the second frame, another, registered
\* between the two, only the second
C26_Witness ==
    \E q1, q2 \in Queues :
       /\ Len(inbox[q1]) = 2
       /\ inbox[q1][1].n = 1
       /\ Len(inbox[q2]) = 1
       /\ inbox[q2][1].n = 2

\* C30: every identifier stored in the registry is a valid 11-bit identifier.
\* Whatever the arguments of the calls, also while a call is under way,
\* every key of id_subscriber_map and every member of every set of
\* subscriber_id_map is an integer from 0 to 0x7FF.
C30_StoredIdsValid ==
    /\ \A k \in DOMAIN id_subscriber_map : k \in Int /\ k >= 0 /\ k <= 2047
    /\ \A q \in DOMAIN subscriber_id_map :
          \A k \in subscriber_id_map[q] : k \in Int /\ k >= 0 /\ k <= 2047

\* identifiers are stored for both endpoints, 0 and 0x7FF among them, and the
\* last call was one with an identifier that is no integer
C30_Witness ==
    /\ DOMAIN subscriber_id_map = Queues
    /\ \E q \in Queues : {0, 2047} \subseteq subscriber_id_map[q]
    /\ \E c \in Callers : result[c] = "TypeError"

\* the error the identifier v or a payload of l bytes is rejected with
MessageError(v, l) ==
    IF v.kind # "int" THEN "TypeError"
    ELSE IF v.val < 0 \/ v.val > 2047 THEN "ValueError_out_of_range"
    ELSE IF l > 8 THEN "PayloadTooLarge"
    ELSE "ok"

OutsideRunning == lpc = "idle" /\ lres \in {"none", "stop_ok", "stop_RuntimeError"}

C31_DeregisterEffective ==
    [][\A q \in Queues :
          inbox'[q] # inbox[q] /\ pc["c1"] = "idle" => q \in Lookup(rxmsg.id)]_vars

====
